---- MODULE Spec2Model ----
(***************************************************************************)
(* Model of hw01.py: the contact book (Field/Phone/Birthday/Record/        *)
(* AddressBook), the birthday-window predicate is_valid_date and the       *)
(* command handlers wrapped by input_error.                                *)
(*                                                                         *)
(* Four specifications share the variables:                                *)
(*   SpecDate  is_valid_date applied to (birthday, today, today + 7)       *)
(*   SpecRec   the phone operations of one Record                          *)
(*   SpecBook  AddressBook.add_record / find / delete / birthdays          *)
(*   SpecCmd   the command handlers add_contact / change_contact /         *)
(*             add_birthday behind input_error                             *)
(***************************************************************************)
EXTENDS Integers, Sequences, FiniteSets, TLC

VARIABLES
    data,     \* AddressBook.data: the dict as a sequence of Records in insertion order
    rec,      \* a single Record (SpecRec)
    today,    \* datetime.now().date() / the start argument of is_valid_date
    bday,     \* the birthday argument of is_valid_date (SpecDate)
    ret,      \* what the last call returned, or the exception it raised
    listing,  \* the list returned by the last AddressBook.birthdays()
    last,     \* the last call: [op, args, rec]
    before    \* data (or rec.phones) as it was when the last call started

vars == <<data, rec, today, bday, ret, listing, last, before>>

----------------------------------------------------------------------------
(* Bounds *)

FirstYear == 2023
LastYear == 2024
BirthYearLo == 1999
BirthYearHi == 2000
MaxPhones == 3
MaxRecords == 2
MaxCmdPhones == 2

----------------------------------------------------------------------------
(* datetime.date *)

NoDate == [year |-> 0, month |-> 0, day |-> 0]

MkDate(y, m, d) == [year |-> y, month |-> m, day |-> d]

IsLeap(y) == (y % 4 = 0) /\ ((y % 100 # 0) \/ (y % 400 = 0))

DaysInMonth(y, m) ==
    IF m = 2 THEN (IF IsLeap(y) THEN 29 ELSE 28)
    ELSE IF m \in {4, 6, 9, 11} THEN 30 ELSE 31

IsDate(y, m, d) ==
    /\ y \in 1..9999
    /\ m \in 1..12
    /\ d >= 1
    /\ d <= DaysInMonth(y, m)

DatesOf(years) ==
    {dt \in [year : years, month : 1..12, day : 1..31] :
        IsDate(dt.year, dt.month, dt.day)}

\* date.__lt__ / date.__le__
DateLt(a, b) ==
    \/ a.year < b.year
    \/ a.year = b.year /\ a.month < b.month
    \/ a.year = b.year /\ a.month = b.month /\ a.day < b.day

DateLe(a, b) == a = b \/ DateLt(a, b)

NextDay(a) ==
    IF a.day < DaysInMonth(a.year, a.month) THEN MkDate(a.year, a.month, a.day + 1)
    ELSE IF a.month < 12 THEN MkDate(a.year, a.month + 1, 1)
    ELSE MkDate(a.year + 1, 1, 1)

RECURSIVE AddDays(_, _)
\* date + timedelta(days=n), n >= 0
AddDays(a, n) == IF n = 0 THEN a ELSE AddDays(NextDay(a), n - 1)

\* date.replace(year=y): raises ValueError when the result is not a date
ReplaceRaises(a, y) == ~IsDate(y, a.month, a.day)

ReplaceYear(a, y) == MkDate(y, a.month, a.day)

WindowDays == 7

FutureDate(t) == AddDays(t, WindowDays)

----------------------------------------------------------------------------
(* is_valid_date *)

IsValidDateNoRollover(birthday, start, end) ==
    IF ReplaceRaises(birthday, start.year) THEN "ValueError"
    ELSE LET adjusted == ReplaceYear(birthday, start.year)
         IN  IF DateLe(start, adjusted) /\ DateLe(adjusted, end) THEN "True" ELSE "False"

\* the date the comparison of line 26 is made on; NoDate when a replace raised
AdjustedBirthday(birthday, start, end) ==
    IF ReplaceRaises(birthday, start.year) THEN NoDate
    ELSE LET adjusted == ReplaceYear(birthday, start.year)
         IN  IF DateLt(adjusted, start) /\ adjusted.year # end.year
             THEN (IF ReplaceRaises(adjusted, end.year) THEN NoDate
                   ELSE ReplaceYear(adjusted, end.year))
             ELSE adjusted

is_valid_date(birthday, start, end) ==
    LET adjusted == AdjustedBirthday(birthday, start, end)
    IN  IF adjusted = NoDate THEN "ValueError"
        ELSE IF DateLe(start, adjusted) /\ DateLe(adjusted, end) THEN "True"
        ELSE "False"

----------------------------------------------------------------------------
(* SpecDate: is_valid_date on every (birthday, today) of the bounded years *)

NoRecord == [name |-> "", phones |-> <<>>, birthday |-> NoDate]

NoCall == [op |-> "none", args |-> <<>>, rec |-> NoRecord]

InitDate ==
    /\ bday \in DatesOf(BirthYearLo..BirthYearHi)
    /\ today \in DatesOf(FirstYear..LastYear)
    /\ data = <<>>
    /\ rec = NoRecord
    /\ ret = "none"
    /\ listing = <<>>
    /\ last = NoCall
    /\ before = <<>>

CallIsValidDate ==
    /\ last.op = "none"
    /\ ret' = is_valid_date(bday, today, FutureDate(today))
    /\ last' = [op |-> "is_valid_date", args |-> <<>>, rec |-> NoRecord]
    /\ UNCHANGED <<data, rec, today, bday, listing, before>>

NextDate == CallIsValidDate

SpecDate == InitDate /\ [][NextDate]_vars

IsFeb29(d) == d.month = 2 /\ d.day = 29

Window(t) == {AddDays(t, k) : k \in 0..WindowDays}

\* C1: for a birthday that is not 29 February, is_valid_date(B, today, today + 7)
\* is true exactly when some day of today..today+7 has B's month and day.
C1_WindowIff ==
    (last.op = "is_valid_date" /\ ~IsFeb29(bday)) =>
        /\ ret \in {"True", "False"}
        /\ (ret = "True") <=>
              (\E d \in Window(today) : d.month = bday.month /\ d.day = bday.day)

C1_Witness ==
    /\ last.op = "is_valid_date"
    /\ ret = "True"
    /\ today.month = 12 /\ today.day = 29
    /\ bday.month = 1 /\ bday.day = 3

\* C8: is_valid_date(B, today, today + 7) raises only when B is 29 February and
\* today's year is not a leap year.
C8_FailsOnlyNonLeapToday ==
    (last.op = "is_valid_date" /\ ret = "ValueError") =>
        (IsFeb29(bday) /\ ~IsLeap(today.year))

----------------------------------------------------------------------------
(* Strings.  A string token is written as a TLA+ string; Chars gives the    *)
(* characters of each token the model uses, so that the checks of the code  *)
(* (length, character classes, splitting) are computed on characters.       *)

Chars(s) ==
    CASE s = "1234567890"  -> <<"1", "2", "3", "4", "5", "6", "7", "8", "9", "0">>
      [] s = "0000000000"  -> <<"0", "0", "0", "0", "0", "0", "0", "0", "0", "0">>
      [] s = "5550001111"  -> <<"5", "5", "5", "0", "0", "0", "1", "1", "1", "1">>
      [] s = "123456789"   -> <<"1", "2", "3", "4", "5", "6", "7", "8", "9">>
      [] s = "12345678901" -> <<"1", "2", "3", "4", "5", "6", "7", "8", "9", "0", "1">>
      [] s = "12345abcde"  -> <<"1", "2", "3", "4", "5", "a", "b", "c", "d", "e">>
      [] s = "10.06.1990"  -> <<"1", "0", ".", "0", "6", ".", "1", "9", "9", "0">>
      [] s = "31.04.1990"  -> <<"3", "1", ".", "0", "4", ".", "1", "9", "9", "0">>
      [] s = "1990-06-10"  -> <<"1", "9", "9", "0", "-", "0", "6", "-", "1", "0">>
      [] s = "Ann"         -> <<"A", "n", "n">>
      [] s = "Bob"         -> <<"B", "o", "b">>
      [] s = "Cy"          -> <<"C", "y">>
      [] s = ""            -> <<>>

\* the ASCII characters matched by \d
Digits == {"0", "1", "2", "3", "4", "5", "6", "7", "8", "9"}

PhoneLen == 10

----------------------------------------------------------------------------
(* Phone *)

validateAnyLength(phone) ==
    \A i \in 1..Len(Chars(phone)) : Chars(phone)[i] \in Digits

\* Phone.validate: re.fullmatch(r"\d{10}", phone)
validate(phone) ==
    /\ Len(Chars(phone)) = PhoneLen
    /\ \A i \in 1..Len(Chars(phone)) : Chars(phone)[i] \in Digits

PhoneError == "Phone must contain exactly 10 digits."

----------------------------------------------------------------------------
(* Record: the phone list holds one Phone object per entry (add_phone makes *)
(* a new object each time), written here as the sequence of their values.   *)

Record(name) == [name |-> name, phones |-> <<>>, birthday |-> NoDate]

\* Record.find_phone: the position of the object returned, 0 for None
find_phone(phones, phone) ==
    IF \E i \in 1..Len(phones) : phones[i] = phone
    THEN CHOOSE i \in 1..Len(phones) :
            /\ phones[i] = phone
            /\ \A j \in 1..(i - 1) : phones[j] # phone
    ELSE 0

RemoveAt(phones, i) ==
    [j \in 1..(Len(phones) - 1) |-> IF j < i THEN phones[j] ELSE phones[j + 1]]

\* Record.add_phone: the new phones and the return value or the exception
add_phone(phones, phone) ==
    IF ~validate(phone) THEN [phones |-> phones, ret |-> PhoneError]
    ELSE [phones |-> Append(phones, phone), ret |-> "None"]

remove_phoneAll(phones, phone) ==
    [phones |-> SelectSeq(phones, LAMBDA v : v # phone), ret |-> "None"]

\* Record.remove_phone
remove_phone(phones, phone) ==
    LET phone_obj == find_phone(phones, phone)
    IN  IF phone_obj # 0 THEN [phones |-> RemoveAt(phones, phone_obj), ret |-> "None"]
        ELSE [phones |-> phones, ret |-> "None"]

edit_phoneRemoveFirst(phones, old_phone, new_phone) ==
    LET phone_obj == find_phone(phones, old_phone)
    IN  IF phone_obj = 0 THEN [phones |-> phones, ret |-> "Phone not found"]
        ELSE IF ~validate(new_phone)
             THEN [phones |-> RemoveAt(phones, phone_obj),
                   ret |-> "New phone must contain exactly 10 digits."]
        ELSE [phones |-> [phones EXCEPT ![phone_obj] = new_phone], ret |-> "None"]

edit_phoneAll(phones, old_phone, new_phone) ==
    LET phone_obj == find_phone(phones, old_phone)
    IN  IF phone_obj = 0 THEN [phones |-> phones, ret |-> "Phone not found"]
        ELSE IF ~validate(new_phone)
             THEN [phones |-> phones, ret |-> "New phone must contain exactly 10 digits."]
        ELSE [phones |-> [j \in 1..Len(phones) |->
                            IF phones[j] = old_phone THEN new_phone ELSE phones[j]],
              ret |-> "None"]

\* Record.edit_phone
edit_phone(phones, old_phone, new_phone) ==
    LET phone_obj == find_phone(phones, old_phone)
    IN  IF phone_obj = 0 THEN [phones |-> phones, ret |-> "Phone not found"]
        ELSE IF ~validate(new_phone)
             THEN [phones |-> phones, ret |-> "New phone must contain exactly 10 digits."]
        ELSE [phones |-> [phones EXCEPT ![phone_obj] = new_phone], ret |-> "None"]

----------------------------------------------------------------------------
(* SpecRec: the phone operations of one Record *)

PhoneInputs ==
    {"1234567890", "0000000000", "5550001111",
     "123456789", "12345678901", "12345abcde", ""}

InitRec ==
    /\ rec = Record("Ann")
    /\ data = <<>>
    /\ today = NoDate
    /\ bday = NoDate
    /\ ret = "none"
    /\ listing = <<>>
    /\ last = NoCall
    /\ before = <<>>

RecCall(op, args, r) ==
    /\ rec' = [rec EXCEPT !.phones = r.phones]
    /\ ret' = r.ret
    /\ last' = [op |-> op, args |-> args, rec |-> NoRecord]
    /\ before' = rec.phones
    /\ UNCHANGED <<data, today, bday, listing>>

CallAddPhone ==
    \E phone \in PhoneInputs :
        /\ Len(rec.phones) < MaxPhones
        /\ RecCall("add_phone", <<phone>>, add_phone(rec.phones, phone))

CallRemovePhone ==
    \E phone \in PhoneInputs :
        RecCall("remove_phone", <<phone>>, remove_phone(rec.phones, phone))

CallEditPhone ==
    \E old_phone \in PhoneInputs, new_phone \in PhoneInputs :
        RecCall("edit_phone", <<old_phone, new_phone>>,
                edit_phone(rec.phones, old_phone, new_phone))

CallFindPhone ==
    \E phone \in PhoneInputs :
        RecCall("find_phone", <<phone>>,
                [phones |-> rec.phones,
                 ret |-> IF find_phone(rec.phones, phone) = 0 THEN "None"
                         ELSE rec.phones[find_phone(rec.phones, phone)]])

NextRec ==
    \/ CallAddPhone
    \/ CallRemovePhone
    \/ CallEditPhone
    \/ CallFindPhone

SpecRec == InitRec /\ [][NextRec]_vars

Occurrences(phones, phone) == Cardinality({i \in 1..Len(phones) : phones[i] = phone})

IsTenDigits(cs) == Len(cs) = 10 /\ \A i \in 1..Len(cs) : cs[i] \in Digits

\* C3: a failing edit_phone(old, new) - old absent, or old present and new not
\* exactly 10 digits - signals the failure and leaves the phone list as it was.
C3_EditFailureNoMutation ==
    last.op = "edit_phone" =>
        LET old == last.args[1]
            new == last.args[2]
        IN  /\ (Occurrences(before, old) = 0) => (ret # "None" /\ rec.phones = before)
            /\ (Occurrences(before, old) > 0 /\ ~IsTenDigits(Chars(new))) =>
                    (ret # "None" /\ rec.phones = before)
            /\ (ret # "None") => rec.phones = before

C3_Witness ==
    /\ last.op = "edit_phone"
    /\ Occurrences(before, last.args[1]) > 0
    /\ ~IsTenDigits(Chars(last.args[2]))
    /\ ret # "None"
    /\ Len(before) >= 2

\* C4: whatever add_phone, remove_phone and edit_phone calls were made, every
\* stored phone is a string of exactly 10 digits.
C4_StoredPhonesValid ==
    \A i \in 1..Len(rec.phones) : IsTenDigits(Chars(rec.phones[i]))

C4_Witness ==
    /\ last.op = "add_phone"
    /\ ~IsTenDigits(Chars(last.args[1]))
    /\ ret = PhoneError
    /\ Len(rec.phones) >= 1

\* C7: remove_phone(number) removes the first entry equal to number and nothing
\* else, keeping the order of the rest; with no such entry it returns without an
\* error and leaves the list unchanged.
C7_RemoveFirstOnly ==
    last.op = "remove_phone" =>
        LET number == last.args[1]
        IN  /\ ret = "None"
            /\ (Occurrences(before, number) = 0) => rec.phones = before
            /\ (Occurrences(before, number) > 0) =>
                 \E i \in 1..Len(before) :
                    /\ before[i] = number
                    /\ \A j \in 1..(i - 1) : before[j] # number
                    /\ Len(rec.phones) = Len(before) - 1
                    /\ \A j \in 1..(i - 1) : rec.phones[j] = before[j]
                    /\ \A j \in i..Len(rec.phones) : rec.phones[j] = before[j + 1]

C7_Witness ==
    /\ last.op = "remove_phone"
    /\ Occurrences(before, last.args[1]) = 2
    /\ Occurrences(rec.phones, last.args[1]) = 1
    /\ Len(before) = 3

\* C9: a successful edit_phone(old, new) sets the first entry equal to old to new
\* in place and changes nothing else; find_phone(new) then finds an entry, and
\* find_phone(old) finds none when old occurred once and differs from new.
C9_EditInPlace ==
    (last.op = "edit_phone" /\ Occurrences(before, last.args[1]) > 0
        /\ IsTenDigits(Chars(last.args[2]))) =>
        LET old == last.args[1]
            new == last.args[2]
        IN  /\ ret = "None"
            /\ Len(rec.phones) = Len(before)
            /\ \E i \in 1..Len(before) :
                    /\ before[i] = old
                    /\ \A j \in 1..(i - 1) : before[j] # old
                    /\ rec.phones[i] = new
                    /\ \A j \in (1..Len(before)) \ {i} : rec.phones[j] = before[j]
            /\ find_phone(rec.phones, new) # 0
            /\ (Occurrences(before, old) = 1 /\ old # new) =>
                    find_phone(rec.phones, old) = 0

C9_Witness ==
    /\ last.op = "edit_phone"
    /\ ret = "None"
    /\ Occurrences(before, last.args[1]) = 2
    /\ last.args[1] # last.args[2]
    /\ Occurrences(rec.phones, last.args[1]) = 1

----------------------------------------------------------------------------
(* Birthday *)

DigitVal(c) ==
    CASE c = "0" -> 0 [] c = "1" -> 1 [] c = "2" -> 2 [] c = "3" -> 3 [] c = "4" -> 4
      [] c = "5" -> 5 [] c = "6" -> 6 [] c = "7" -> 7 [] c = "8" -> 8 [] c = "9" -> 9

RECURSIVE Num(_)
Num(cs) == IF cs = <<>> THEN 0
           ELSE 10 * Num(SubSeq(cs, 1, Len(cs) - 1)) + DigitVal(cs[Len(cs)])

AllDigits(cs) == \A i \in 1..Len(cs) : cs[i] \in Digits

\* datetime.strptime(value, "%d.%m.%Y").date(); NoDate when it raises ValueError
strptime(value) ==
    LET cs   == Chars(value)
        dots == {i \in 1..Len(cs) : cs[i] = "."}
    IN  IF Cardinality(dots) # 2 THEN NoDate
        ELSE LET p1 == CHOOSE i \in dots : \A j \in dots : i <= j
                 p2 == CHOOSE i \in dots : \A j \in dots : j <= i
                 dd == SubSeq(cs, 1, p1 - 1)
                 mm == SubSeq(cs, p1 + 1, p2 - 1)
                 yy == SubSeq(cs, p2 + 1, Len(cs))
             IN  IF /\ Len(dd) \in 1..2 /\ AllDigits(dd)
                    /\ Len(mm) \in 1..2 /\ AllDigits(mm)
                    /\ Len(yy) = 4 /\ AllDigits(yy)
                    /\ IsDate(Num(yy), Num(mm), Num(dd))
                 THEN MkDate(Num(yy), Num(mm), Num(dd))
                 ELSE NoDate

BirthdayError == "Invalid date format. Use DD.MM.YYYY"

\* Birthday.__init__: the date stored in .value, NoDate when it raises
Birthday(value) == strptime(value)

----------------------------------------------------------------------------
(* AddressBook: a dict keeps its keys in insertion order, and assigning to *)
(* an existing key keeps the key's position.                               *)

KeyIndex(d, name) ==
    IF \E i \in 1..Len(d) : d[i].name = name
    THEN CHOOSE i \in 1..Len(d) : d[i].name = name
    ELSE 0

add_recordKeepFirst(d, record) ==
    IF KeyIndex(d, record.name) # 0 THEN d ELSE Append(d, record)

\* AddressBook.add_record
add_record(d, record) ==
    IF KeyIndex(d, record.name) # 0
    THEN [d EXCEPT ![KeyIndex(d, record.name)] = record]
    ELSE Append(d, record)

\* AddressBook.find: NoRecord for None
find(d, name) ==
    IF KeyIndex(d, name) # 0 THEN d[KeyIndex(d, name)] ELSE NoRecord

\* AddressBook.delete
delete(d, name) ==
    IF KeyIndex(d, name) # 0
    THEN [j \in 1..(Len(d) - 1) |-> IF j < KeyIndex(d, name) THEN d[j] ELSE d[j + 1]]
    ELSE d

\* list.sort(key=lambda item: item[1]): stable, ascending on the second component
RECURSIVE InsertByDate(_, _)
InsertByDate(sorted, item) ==
    IF sorted = <<>> THEN <<item>>
    ELSE IF DateLt(item[2], sorted[Len(sorted)][2])
         THEN Append(InsertByDate(SubSeq(sorted, 1, Len(sorted) - 1), item),
                     sorted[Len(sorted)])
         ELSE Append(sorted, item)

RECURSIVE SortByDate(_)
SortByDate(items) ==
    IF items = <<>> THEN <<>>
    ELSE InsertByDate(SortByDate(SubSeq(items, 1, Len(items) - 1)), items[Len(items)])

\* the loop of AddressBook.birthdays raises when is_valid_date raises on a record
BirthdaysRaises(d, t) ==
    \E i \in 1..Len(d) :
        /\ d[i].birthday # NoDate
        /\ is_valid_date(d[i].birthday, t, FutureDate(t)) = "ValueError"

Item(record) == <<record.name, record.birthday>>

RECURSIVE Items(_)
Items(records) ==
    IF records = <<>> THEN <<>>
    ELSE <<Item(records[1])>> \o Items(Tail(records))

birthdaysNoWindow(d, t) ==
    SortByDate(Items(SelectSeq(d, LAMBDA record : record.birthday # NoDate)))

\* AddressBook.birthdays with today = t, when the loop does not raise
birthdays(d, t) ==
    SortByDate(Items(SelectSeq(d, LAMBDA record :
        /\ record.birthday # NoDate
        /\ is_valid_date(record.birthday, t, FutureDate(t)) = "True")))

----------------------------------------------------------------------------
(* SpecBook: the AddressBook operations *)

Names == {"Ann", "Bob", "Cy"}

BirthdayInputs ==
    {MkDate(1990, 6, 10), MkDate(1985, 1, 3), MkDate(1990, 12, 30),
     MkDate(2000, 2, 29), NoDate}

TodayInputs ==
    {MkDate(2024, 6, 1), MkDate(2024, 12, 29), MkDate(2023, 12, 27),
     MkDate(2023, 6, 3), MkDate(2024, 2, 25)}

RecordInputs ==
    [name : Names, phones : {<<>>, <<"1234567890">>}, birthday : BirthdayInputs]

InitBook ==
    /\ data = <<>>
    /\ rec = NoRecord
    /\ today = NoDate
    /\ bday = NoDate
    /\ ret = "none"
    /\ listing = <<>>
    /\ last = NoCall
    /\ before = <<>>

CallAddRecord ==
    \E record \in RecordInputs :
        /\ KeyIndex(data, record.name) # 0 \/ Len(data) < MaxRecords
        /\ data' = add_record(data, record)
        /\ ret' = "None"
        /\ last' = [op |-> "add_record", args |-> <<record.name>>, rec |-> record]
        /\ before' = data
        /\ today' = NoDate
        /\ listing' = <<>>
        /\ UNCHANGED <<rec, bday>>

CallFind ==
    \E name \in Names :
        /\ ret' = IF find(data, name) = NoRecord THEN "None" ELSE "Record"
        /\ last' = [op |-> "find", args |-> <<name>>, rec |-> find(data, name)]
        /\ before' = data
        /\ today' = NoDate
        /\ listing' = <<>>
        /\ UNCHANGED <<data, rec, bday>>

CallDelete ==
    \E name \in Names :
        /\ data' = delete(data, name)
        /\ ret' = "None"
        /\ last' = [op |-> "delete", args |-> <<name>>, rec |-> NoRecord]
        /\ before' = data
        /\ today' = NoDate
        /\ listing' = <<>>
        /\ UNCHANGED <<rec, bday>>

CallBirthdays ==
    \E t \in TodayInputs :
        /\ today' = t
        /\ IF BirthdaysRaises(data, t)
           THEN ret' = "ValueError" /\ listing' = <<>>
           ELSE ret' = "list" /\ listing' = birthdays(data, t)
        /\ last' = [op |-> "birthdays", args |-> <<>>, rec |-> NoRecord]
        /\ before' = data
        /\ UNCHANGED <<data, rec, bday>>

NextBook ==
    \/ CallAddRecord
    \/ CallFind
    \/ CallDelete
    \/ CallBirthdays

SpecBook == InitBook /\ [][NextBook]_vars

\* the birthday moved into the year in which it falls inside the window
Adjusted(b) == AdjustedBirthday(b, today, FutureDate(today))

\* C2: the list returned by birthdays() is ascending by the adjusted date of
\* each entry.
C2_SortedByAdjustedDate ==
    (last.op = "birthdays" /\ ret = "list") =>
        \A i \in 1..Len(listing) : \A j \in 1..Len(listing) :
            DateLt(Adjusted(listing[i][2]), Adjusted(listing[j][2])) => i < j

\* C5: add_record of a record whose name is already a key replaces the previous
\* record: find(name) gives the new record, the name has exactly one entry, and
\* the entries under other names are unchanged.
C5_LastWriteWins ==
    (last.op = "add_record" /\ \E i \in 1..Len(before) : before[i].name = last.rec.name) =>
        /\ find(data, last.rec.name) = last.rec
        /\ Cardinality({i \in 1..Len(data) : data[i].name = last.rec.name}) = 1
        /\ Len(data) = Len(before)
        /\ \A i \in 1..Len(before) :
                before[i].name # last.rec.name => data[i] = before[i]
        /\ \A i \in 1..Len(data) : data[i] = last.rec \/ data[i] = before[i]

C5_Witness ==
    /\ last.op = "add_record"
    /\ Len(before) >= 2
    /\ \E i \in 1..Len(before) :
            /\ before[i].name = last.rec.name
            /\ before[i].phones # <<>>
            /\ before[i].birthday # NoDate
            /\ last.rec.phones = <<>>
            /\ last.rec.birthday = NoDate

----------------------------------------------------------------------------
(* Command handlers.  A handler gives [data, exc, value]: the book it      *)
(* leaves, the exception it raised ("" for none) and its return value or   *)
(* the exception's message.                                                *)

Returns(d, value) == [data |-> d, exc |-> "", value |-> value]

Raises(d, exc, msg) == [data |-> d, exc |-> exc, value |-> msg]

\* input_error: the string the wrapped handler returns
input_error(r) ==
    CASE r.exc = ""           -> r.value
      [] r.exc = "KeyError"   -> "Contact not found."
      [] r.exc = "ValueError" -> r.value
      [] r.exc = "IndexError" -> "Not enough arguments."
      [] r.exc = "TypeError"  -> "Invalid input."

UnpackError == "not enough values to unpack / too many values to unpack"

SetRecord(d, name, record) == [d EXCEPT ![KeyIndex(d, name)] = record]

\* add_contact
add_contact(args, book) ==
    IF Len(args) < 2 THEN Raises(book, "ValueError", UnpackError)
    ELSE LET name     == args[1]
             phone    == args[2]
             found    == find(book, name)
             book1    == IF found = NoRecord THEN add_record(book, Record(name)) ELSE book
             record   == IF found = NoRecord THEN Record(name) ELSE found
             message  == IF found = NoRecord THEN "Contact added." ELSE "Contact updated."
             r        == add_phone(record.phones, phone)
         IN  IF r.ret # "None" THEN Raises(book1, "ValueError", r.ret)
             ELSE Returns(SetRecord(book1, name, [record EXCEPT !.phones = r.phones]),
                          message)

\* change_contact
change_contact(args, book) ==
    IF Len(args) # 3 THEN Raises(book, "ValueError", UnpackError)
    ELSE LET name   == args[1]
             record == find(book, name)
             r      == edit_phone(record.phones, args[2], args[3])
         IN  IF record = NoRecord THEN Raises(book, "KeyError", "")
             ELSE IF r.ret # "None" THEN Raises(book, "ValueError", r.ret)
             ELSE Returns(SetRecord(book, name, [record EXCEPT !.phones = r.phones]),
                          "Phone number updated.")

\* add_birthday (the handler) and Record.add_birthday
add_birthday(args, book) ==
    IF Len(args) # 2 THEN Raises(book, "ValueError", UnpackError)
    ELSE LET name   == args[1]
             record == find(book, name)
         IN  IF record = NoRecord THEN Raises(book, "KeyError", "")
             ELSE IF Birthday(args[2]) = NoDate
                  THEN Raises(book, "ValueError", BirthdayError)
             ELSE Returns(SetRecord(book, name,
                                    [record EXCEPT !.birthday = Birthday(args[2])]),
                          "Birthday added.")

----------------------------------------------------------------------------
(* SpecCmd: sequences of add / change / add-birthday commands *)

CmdNames == {"Ann", "Bob"}

CmdPhones == {"1234567890", "0000000000", "123456789"}

CmdBirthdays == {"10.06.1990", "31.04.1990", "1990-06-10"}

AddArgs ==
    {<<n, p>> : n \in CmdNames, p \in CmdPhones} \cup {<<n>> : n \in CmdNames}

ChangeArgs ==
    {<<n, o, p>> : n \in CmdNames, o \in CmdPhones, p \in CmdPhones}
        \cup {<<n, p>> : n \in CmdNames, p \in CmdPhones}

BirthdayArgs ==
    {<<n, b>> : n \in CmdNames, b \in CmdBirthdays} \cup {<<n>> : n \in CmdNames}

InitCmd ==
    /\ data = <<>>
    /\ rec = NoRecord
    /\ today = NoDate
    /\ bday = NoDate
    /\ ret = "none"
    /\ listing = <<>>
    /\ last = NoCall
    /\ before = <<>>

CmdCall(op, args, r) ==
    /\ \A i \in 1..Len(r.data) : Len(r.data[i].phones) <= MaxCmdPhones
    /\ data' = r.data
    /\ ret' = input_error(r)
    /\ last' = [op |-> op, args |-> args, rec |-> NoRecord]
    /\ before' = data
    /\ UNCHANGED <<rec, today, bday, listing>>

CmdAdd == \E args \in AddArgs : CmdCall("add_contact", args, add_contact(args, data))

CmdChange ==
    \E args \in ChangeArgs : CmdCall("change_contact", args, change_contact(args, data))

CmdAddBirthday ==
    \E args \in BirthdayArgs : CmdCall("add_birthday", args, add_birthday(args, data))

NextCmd ==
    \/ CmdAdd
    \/ CmdChange
    \/ CmdAddBirthday

SpecCmd == InitCmd /\ [][NextCmd]_vars

SuccessMessages ==
    {"Contact added.", "Contact updated.", "Phone number updated.", "Birthday added."}

\* C10: a command that returns an error message leaves the book unchanged, and
\* after any sequence of add_contact, change_contact and add_birthday commands
\* every record in the book has at least one phone.
C10_ErrorLeavesBookUnchanged ==
    /\ (last.op # "none" /\ ret \notin SuccessMessages) => data = before
    /\ \A i \in 1..Len(data) : Len(data[i].phones) >= 1

====
